---- MODULE Spec2Model ----
(***************************************************************************)
(* Verification model of the job-search tool's search orchestration and    *)
(* relevance filter (scripts/search_jobs.py) and of its scheduler           *)
(* (scripts/scheduler.py).                                                  *)
(*                                                                         *)
(* The state machines of the module:                                        *)
(*   - SearchSpec : one call of search_jobs(config): the thread pool's      *)
(*     workers run ThrottledExecutor.throttled_search (throttle, then       *)
(*     search_single_query with its tenacity retry), the calling thread     *)
(*     drains the futures as they complete, deduplicates and counts.        *)
(*   - SchedSpec : JobSearchScheduler.start() in recurring mode on top of   *)
(*     APScheduler's BlockingScheduler (date triggers, thread-pool          *)
(*     executor, max_instances = 1 per job id, misfire grace of 1 s),       *)
(*     and run_once() in single-shot mode; StopSpec adds stop().            *)
(*   - ScoreSpec : filter_relevant_jobs with calculate_relevance_score.     *)
(*   - FilterSpec, MatchSpec : fuzzy_post_filter and _fuzzy_word_match.     *)
(*   - KeySpec : the in-run job key and the persistent job_id.              *)
(*   - LoadSpec : load_config (scripts/config.py).                          *)
(*   - DbSpec : the save operations of JobDatabase (scripts/database.py).   *)
(*   - NextRunSpec : _schedule_next_run called at any time.                 *)
(* Time is a discrete clock; one tick is the model's time unit.             *)
(***************************************************************************)
EXTENDS Integers, Sequences, FiniteSets, TLC

VARIABLES
    \* ---- search_jobs -------------------------------------------------
    config,        \* the Config object of the run
    clock,         \* time.time(), in ticks
    scrape_jobs,   \* the external fetch: the outcomes an invocation can have
    mainPc,        \* position of the thread that called search_jobs
    queue,         \* ThreadPoolExecutor work queue: tasks not yet taken
    pc,            \* per worker thread: position inside throttled_search
    wtask,         \* per worker thread: index of the task it is running
    wake,          \* per worker thread: end of its time.sleep
    attempt,       \* per worker thread: tenacity attempt number
    site_locks,    \* ThrottledExecutor.site_locks (set of created sites)
    lockHolder,    \* holder of site_locks["_global"]
    site_last_request, \* ThrottledExecutor.site_last_request["_global"]
    future,        \* per task: "pending" | "done" | "consumed"
    result,        \* per task: what throttled_search returned
    summary,       \* SearchSummary
    seen_jobs,     \* set of job keys seen so far
    all_jobs,      \* list of the DataFrames of new rows
    returned,      \* what search_jobs returned
    \* history of the run (not read by the program)
    prev_request,  \* value of site_last_request before the latest grant
    calls,         \* per task: the outcomes of its fetch invocations
    grants,        \* per task: how many times it was granted the throttle lock
    counted,       \* per task: how the drain loop counted it
    taskRows,      \* rows returned by the tasks (after post-filtering)
    \* ---- scheduler ---------------------------------------------------
    sconfig,       \* config.scheduler
    now,           \* datetime.now(), in ticks of 30 minutes
    mainAt,        \* position of the thread that called start()
    _scheduler,    \* self._scheduler: "None" | "stopped" | "running"
    _running,      \* self._running
    jobs,          \* APScheduler's jobs: job id -> run date (or NoJob)
    inflight,      \* per slot: the run of _execute_job in flight (or NoRun)
    _run_count,
    _last_run_success,
    lastStart,     \* history: the run begun most recently
    lastEnd,       \* history: the run ended most recently
    lastExit,      \* history: how the call that ran it was left
    stop_requested, \* history: stop() has been called after start()
    \* ---- relevance filter --------------------------------------------
    scoring,       \* config.scoring: threshold, weights, keywords
    input_df,      \* the DataFrame given to filter_relevant_jobs
    scored,        \* its copy with the relevance_score column (or None)
    relevant_jobs, \* what filter_relevant_jobs returns (or None)
    \* ---- fuzzy_post_filter --------------------------------------------
    pf_config,     \* config.post_filter
    pf_query,      \* the query argument
    pf_location,   \* the location argument
    pf_jobs_df,    \* the jobs_df argument
    pf_filtered_df, \* what fuzzy_post_filter returns (or None)
    \* ---- _fuzzy_word_match --------------------------------------------
    fm_word,       \* the word argument
    fm_text,       \* the text argument
    fm_min_similarity,
    fm_result,     \* what the call returned, for the arguments as given
                   \* and for the normalized arguments (or None)
    \* ---- job identity -------------------------------------------------
    key_rows,      \* two rows of one task's DataFrame
    key_result,    \* their in-run keys, their job_ids and the rows the
                   \* dedup loop keeps (or None)
    \* ---- load_config --------------------------------------------------
    yaml_data,     \* the settings read from the YAML file
    loaded,        \* how load_config ended: "pending" | "Config" | "ValueError"
    \* ---- JobDatabase --------------------------------------------------
    db_jobs,       \* the jobs table: job_id -> stored row (or no row)
    db_saved,      \* history: job_id -> the scores saved under it so far
    db_last,       \* history: the latest save_jobs_from_dataframe call
    db_calls,      \* history: number of save calls made
    \* ---- _schedule_next_run -------------------------------------------
    nr_start,      \* the current_run_start argument
    nr_now,        \* datetime.now() inside the call
    nr_interval_hours, \* config.scheduler.interval_hours
    nr_result      \* the run date registered and the warning (or None)

searchVars == <<config, scrape_jobs, clock, mainPc, queue, pc, wtask, wake, attempt,
                site_locks, lockHolder, site_last_request, future, result,
                summary, seen_jobs, all_jobs, returned, prev_request,
                calls, grants, counted, taskRows>>
schedVars == <<sconfig, now, mainAt, _scheduler, _running, jobs, inflight,
               _run_count, _last_run_success, lastStart, lastEnd, lastExit,
               stop_requested>>
scoreVars == <<scoring, input_df, scored, relevant_jobs>>
filterVars == <<pf_config, pf_query, pf_location, pf_jobs_df, pf_filtered_df>>
matchVars == <<fm_word, fm_text, fm_min_similarity, fm_result>>
keyVars == <<key_rows, key_result>>
loadVars == <<yaml_data, loaded>>
dbVars == <<db_jobs, db_saved, db_last, db_calls>>
nextRunVars == <<nr_start, nr_now, nr_interval_hours, nr_result>>
pureVars == <<filterVars, matchVars, keyVars, loadVars, dbVars, nextRunVars>>
vars == <<searchVars, schedVars, scoreVars, pureVars>>

(***************************************************************************)
(* Bounds of the model.                                                     *)
(***************************************************************************)
MaxQueries == 2
ThrottleQueries == 4
MaxWorkers == 2
MaxAttemptsBound == 2
MaxRows == 2
StartTime == 4
MaxClock == 8
MaxNow == 7
MaxDuration == 3
MaxKeywords == 2
MaxJobs == 2

Max(a, b) == IF a >= b THEN a ELSE b

(***************************************************************************)
(* Text: strings are sequences of characters; str.lower().                  *)
(***************************************************************************)
LowerChar(c) ==
    CASE c = "D" -> "d"
      [] c = "O" -> "o"
      [] c = "A" -> "a"
      [] c = "R" -> "r"
      [] c = "Z" -> "z"
      [] c = "J" -> "j"
      [] c = "Ü" -> "ü"
      [] OTHER -> c

Lower(s) == [i \in DOMAIN s |-> LowerChar(s[i])]

\* hashlib.sha256(x.encode()).hexdigest()[:16]: a digest is determined by
\* its input and distinct inputs of the model have distinct digests
Sha256Hex16(s) == <<"sha256[:16]", s>>

_generate_job_key(row) ==
    Sha256Hex16(Lower(row.title \o <<"|">> \o row.company \o <<"|">> \o row.location))

(***************************************************************************)
(* Rows the external fetch can return.  `matches` is the verdict of         *)
(* fuzzy_post_filter's row loop for the task's query and location.          *)
(***************************************************************************)
Row(t, c, l, m) == [title |-> t, company |-> c, location |-> l, matches |-> m]

RowUniverse ==
    { Row(<<"D","e","v">>, <<"A","c">>, <<"R","o">>, TRUE),
      Row(<<"d","e","v">>, <<"a","c">>, <<"r","o">>, TRUE),
      Row(<<"O","p","s">>, <<"A","c">>, <<"R","o">>, FALSE) }

RowSeqs == UNION { [1..n -> RowUniverse] : n \in 1..MaxRows }

(***************************************************************************)
(* Configuration (scripts/config.py).  Delays are in ticks, jitter is the  *)
(* configured fraction written in percent.                                  *)
(***************************************************************************)
SiteLower(site) ==
    CASE site = "LinkedIn" -> "linkedin"
      [] site = "Indeed" -> "indeed"
      [] OTHER -> site

\* config.queries: category -> list of queries (the categories in order)
QueryList(n) == [i \in 1..n |-> <<"query", i>>]

\* Config.get_all_queries
RECURSIVE Flatten(_)
Flatten(lists) == IF lists = <<>> THEN <<>> ELSE Head(lists) \o Flatten(Tail(lists))

get_all_queries(cfg) == Flatten(cfg.queries)

ConfigSpace(enabled, jitters, site_delay_maps, queries, locations, attempts, post_filter) ==
    [ queries : queries,
      throttling : [ enabled : enabled,
                     default_delay : {2},
                     site_delays : site_delay_maps,
                     jitter : jitters ],
      search : [ sites : { <<"LinkedIn", "indeed">> },
                 locations : locations ],
      retry : [ max_attempts : attempts ],
      parallel : [ max_workers : {MaxWorkers} ],
      post_filter : [ enabled : post_filter ] ]

\* configurations of the search runs
SearchConfigs ==
    ConfigSpace(BOOLEAN, {0},
                { [s \in {"linkedin", "indeed"} |-> 1] },
                { << QueryList(MaxQueries) >> },
                { <<"Remote">> },
                1..MaxAttemptsBound, BOOLEAN)

\* configurations of the throttling runs
ThrottleConfigs ==
    ConfigSpace({TRUE}, {0, 50, 100},
                { [s \in {"linkedin"} |-> 4], [s \in {"linkedin", "indeed"} |-> 1] },
                { << QueryList(1), QueryList(ThrottleQueries - 1) >> },
                { <<"Remote">> },
                {1}, {TRUE})

\* dict.get(key, default)
DictGet(d, key, default) == IF key \in DOMAIN d THEN d[key] ELSE default

\* the loop of throttled_search over config.search.sites
RECURSIVE MaxDelayLoop(_, _, _, _)
MaxDelayLoop(cfg, sites, i, max_delay) ==
    IF i > Len(sites) THEN max_delay
    ELSE MaxDelayLoop(cfg, sites, i + 1,
            Max(max_delay,
                DictGet(cfg.throttling.site_delays, SiteLower(sites[i]),
                        cfg.throttling.default_delay)))

EffectiveDelay(cfg) ==
    MaxDelayLoop(cfg, cfg.search.sites, 1, cfg.throttling.default_delay)

\* max_delay * jitter, and the values random.uniform(-j, j) can add
JitterAmount(cfg) == (EffectiveDelay(cfg) * cfg.throttling.jitter) \div 100

ActualDelays(cfg) ==
    IF cfg.throttling.jitter > 0
    THEN { EffectiveDelay(cfg) + u : u \in (0 - JitterAmount(cfg))..JitterAmount(cfg) }
    ELSE { EffectiveDelay(cfg) }

(***************************************************************************)
(* Tasks: [(q, loc) for loc in locations for q in queries].                 *)
(***************************************************************************)
Tasks(cfg) ==
    LET queries == get_all_queries(cfg)
        locations == cfg.search.locations
    IN  [k \in 1..(Len(locations) * Len(queries)) |->
            <<queries[((k - 1) % Len(queries)) + 1],
              locations[((k - 1) \div Len(queries)) + 1]>>]

TaskIds == DOMAIN Tasks(config)
Workers == 1..MaxWorkers
NoWorker == 0
NoTask == 0

(***************************************************************************)
(* Outcomes of one invocation of the external fetch (scrape_jobs).          *)
(***************************************************************************)
NoneValue == "None"
ErrorMessages == {"", "timed out"}

AllOutcomes ==
    [kind : {"rows"}, rows : RowSeqs, msg : {NoneValue}]
    \cup [kind : {"empty"}, rows : {<<>>}, msg : {NoneValue}]
    \cup [kind : {"transient", "permanent"}, rows : {<<>>}, msg : ErrorMessages]

\* a fetch that never returns rows: nothing found, or a failure
BarrenOutcomes == { o \in AllOutcomes : o.kind \in {"empty", "permanent"} /\ o.msg # "" }

\* retry_if_exception_type((ConnectionError, TimeoutError))
IsRetryable(outcome) == outcome.kind = "transient"

\* stop_after_attempt(max_attempts)
StopAfterAttempt(attempt_number, max_attempts) == attempt_number >= max_attempts

\* fuzzy_post_filter: the rows whose row loop verdict is "match"
RECURSIVE SelectMatching(_)
SelectMatching(rows) ==
    IF rows = <<>> THEN <<>>
    ELSE (IF Head(rows).matches THEN <<Head(rows)>> ELSE <<>>)
         \o SelectMatching(Tail(rows))

fuzzy_post_filter(cfg, rows) ==
    IF ~cfg.post_filter.enabled THEN rows
    ELSE IF Len(rows) = 0 THEN rows
    ELSE SelectMatching(rows)

\* a pandas DataFrame, or None in its place
DataFrame(rows) == [none |-> FALSE, rows |-> rows]
NoneDf == [none |-> TRUE, rows |-> <<>>]

\* the value search_single_query returns: (jobs or None, error or None)
SearchResult(df, error) == [df |-> df, error |-> error]

\* search_single_query's try block after _do_search returned
OnFetchReturn(cfg, outcome) ==
    IF outcome.kind = "rows" /\ Len(outcome.rows) > 0
    THEN LET filtered == fuzzy_post_filter(cfg, outcome.rows)
         IN  IF Len(filtered) = 0 THEN SearchResult(NoneDf, NoneValue)
             ELSE SearchResult(DataFrame(filtered), NoneValue)
    ELSE SearchResult(NoneDf, NoneValue)

\* search_single_query's except block: error_msg = str(e)
OnFetchRaise(outcome) == SearchResult(NoneDf, outcome.msg)

\* Python truthiness of `error` in `if error:`
Truthy(error) == error # NoneValue /\ error # ""

(***************************************************************************)
(* search_jobs: the drain loop's deduplication (under _jobs_lock).          *)
(***************************************************************************)
\* a membership test that never finds the key
IsNewKey_NeverSeen(job_key, seen) == TRUE

\* if job_key not in seen_jobs
IsNewKey(job_key, seen) == job_key \notin seen

\* for _, row in jobs_df.iterrows(): ... ; returns the new seen set and rows
RECURSIVE DedupLoop(_, _, _)
DedupLoop(rows, seen, new_jobs) ==
    IF rows = <<>> THEN [seen |-> seen, new_jobs |-> new_jobs]
    ELSE LET job_key == _generate_job_key(Head(rows))
         IN  IF IsNewKey(job_key, seen)
             THEN DedupLoop(Tail(rows), seen \cup {job_key},
                            Append(new_jobs, Head(rows)))
             ELSE DedupLoop(Tail(rows), seen, new_jobs)

\* pd.concat(all_jobs, ignore_index=True)
RECURSIVE Concat(_)
Concat(dfs) == IF dfs = <<>> THEN <<>> ELSE Head(dfs) \o Concat(Tail(dfs))

NewSummary ==
    [total_queries |-> 0, successful_queries |-> 0, failed_queries |-> 0,
     total_jobs_found |-> 0, unique_jobs |-> 0, finished |-> FALSE]

SearchInit(configs, scrapers) ==
    /\ config \in configs
    /\ scrape_jobs \in scrapers
    /\ clock = StartTime
    /\ mainPc = "start"
    /\ queue = <<>>
    /\ pc = [w \in Workers |-> "idle"]
    /\ wtask = [w \in Workers |-> NoTask]
    /\ wake = [w \in Workers |-> 0]
    /\ attempt = [w \in Workers |-> 0]
    /\ site_locks = {}
    /\ lockHolder = NoWorker
    /\ site_last_request = 0
    /\ future = [t \in TaskIds |-> "pending"]
    /\ result = [t \in TaskIds |-> SearchResult(NoneDf, NoneValue)]
    /\ summary = NewSummary
    /\ seen_jobs = {}
    /\ all_jobs = <<>>
    /\ returned = [done |-> FALSE, df |-> NoneDf]
    /\ prev_request = 0
    /\ calls = [t \in TaskIds |-> <<>>]
    /\ grants = [t \in TaskIds |-> 0]
    /\ counted = [t \in TaskIds |-> "no"]
    /\ taskRows = {}

\* search_jobs up to the submission of every task to the executor
SubmitAll ==
    /\ mainPc = "start"
    /\ summary' = [summary EXCEPT !.total_queries = Len(Tasks(config))]
    /\ queue' = [k \in 1..Len(Tasks(config)) |-> k]
    /\ mainPc' = "drain"
    /\ UNCHANGED <<config, scrape_jobs, clock, pc, wtask, wake, attempt, site_locks,
                   lockHolder, site_last_request, future, result, seen_jobs,
                   all_jobs, returned, prev_request, calls, grants,
                   counted, taskRows>>

\* a throttled_search that throttles whatever the configuration says
FirstStep_AlwaysThrottle(cfg) == "get_lock"

\* `if not config.throttling.enabled: return search_single_query(...)`:
\* where throttled_search goes first
FirstStep(cfg) == IF ~cfg.throttling.enabled THEN "search" ELSE "get_lock"

\* a pool thread takes the next work item and enters throttled_search
TakeTask(w) ==
    /\ pc[w] = "idle"
    /\ w <= config.parallel.max_workers
    /\ queue # <<>>
    /\ wtask' = [wtask EXCEPT ![w] = Head(queue)]
    /\ queue' = Tail(queue)
    /\ attempt' = [attempt EXCEPT ![w] = 1]
    /\ pc' = [pc EXCEPT ![w] = FirstStep(config)]
    /\ UNCHANGED <<config, scrape_jobs, clock, mainPc, wake, site_locks, lockHolder,
                   site_last_request, future, result, summary, seen_jobs,
                   all_jobs, returned, prev_request, calls, grants,
                   counted, taskRows>>

\* _get_site_lock("_global"), under self._lock
GetSiteLock(w) ==
    /\ pc[w] = "get_lock"
    /\ IF "_global" \notin site_locks
       THEN /\ site_locks' = site_locks \cup {"_global"}
            /\ site_last_request' = 0
       ELSE UNCHANGED <<site_locks, site_last_request>>
    /\ pc' = [pc EXCEPT ![w] = "acquire"]
    /\ UNCHANGED <<config, scrape_jobs, clock, mainPc, queue, wtask, wake, attempt,
                   lockHolder, future, result, summary, seen_jobs, all_jobs,
                   returned, prev_request, calls, grants, counted,
                   taskRows>>

\* a lock that excludes nobody
LockAvailable_NoMutex(holder) == TRUE

\* threading.Lock: acquire succeeds only when nobody holds the lock
LockAvailable(holder) == holder = NoWorker

\* with global_lock:
AcquireLock(w) ==
    /\ pc[w] = "acquire"
    /\ LockAvailable(lockHolder)
    /\ lockHolder' = w
    /\ grants' = [grants EXCEPT ![wtask[w]] = @ + 1]
    /\ pc' = [pc EXCEPT ![w] = "locked"]
    /\ UNCHANGED <<config, scrape_jobs, clock, mainPc, queue, wtask, wake, attempt,
                   site_locks, site_last_request, future, result, summary,
                   seen_jobs, all_jobs, returned, prev_request,
                   calls, counted, taskRows>>

\* sleep_time = actual_delay - elapsed, when elapsed < actual_delay
SleepTime(elapsed, actual_delay) ==
    IF elapsed < actual_delay THEN actual_delay - elapsed ELSE 0

\* now = time.time(); elapsed; jitter; time.sleep(sleep_time) begins
ComputeWait(w) ==
    /\ pc[w] = "locked"
    /\ \E actual_delay \in ActualDelays(config) :
         LET elapsed == clock - site_last_request
         IN  wake' = [wake EXCEPT ![w] = clock + SleepTime(elapsed, actual_delay)]
    /\ pc' = [pc EXCEPT ![w] = "sleeping"]
    /\ UNCHANGED <<config, scrape_jobs, clock, mainPc, queue, wtask, attempt, site_locks,
                   lockHolder, site_last_request, future, result, summary,
                   seen_jobs, all_jobs, returned, prev_request, calls, grants,
                   counted, taskRows>>

\* time.sleep returned; site_last_request["_global"] = time.time(); the
\* with block ends and releases the lock
StampAndRelease(w) ==
    /\ pc[w] = "sleeping"
    /\ clock >= wake[w]
    /\ prev_request' = site_last_request
    /\ site_last_request' = clock
    /\ lockHolder' = NoWorker
    /\ wake' = [wake EXCEPT ![w] = 0]
    /\ pc' = [pc EXCEPT ![w] = "search"]
    /\ UNCHANGED <<config, scrape_jobs, clock, mainPc, queue, wtask, attempt,
                   site_locks, future, result, summary, seen_jobs, all_jobs,
                   returned, calls, grants, counted, taskRows>>

\* rows of a returned DataFrame (None holds no rows)
RowsOf(df) == { df.rows[i] : i \in DOMAIN df.rows }

\* throttled_search returns: the future of task t completes with res
CompleteTask(w, t, res) ==
    /\ result' = [result EXCEPT ![t] = res]
    /\ future' = [future EXCEPT ![t] = "done"]
    /\ taskRows' = taskRows \cup RowsOf(res.df)
    /\ pc' = [pc EXCEPT ![w] = "idle"]
    /\ wtask' = [wtask EXCEPT ![w] = NoTask]
    /\ attempt' = [attempt EXCEPT ![w] = 0]

\* a retry that goes through the throttle again
RetryStep_Rethrottle(cfg) == IF cfg.throttling.enabled THEN "acquire" ELSE "search"

\* where a retried attempt starts: tenacity calls _do_search again, inside
\* search_single_query
RetryStep(cfg) == "search"

\* search_single_query: one invocation of _do_search under tenacity's
\* @retry(retry_if_exception_type, stop_after_attempt, reraise=True)
FetchAttempt(w) ==
    /\ pc[w] = "search"
    /\ \E outcome \in scrape_jobs :
         LET t == wtask[w]
         IN  /\ calls' = [calls EXCEPT ![t] = Append(@, outcome.kind)]
             /\ IF outcome.kind \in {"rows", "empty"}
                THEN CompleteTask(w, t, OnFetchReturn(config, outcome))
                ELSE IF IsRetryable(outcome)
                        /\ ~StopAfterAttempt(attempt[w], config.retry.max_attempts)
                THEN /\ attempt' = [attempt EXCEPT ![w] = @ + 1]
                     /\ pc' = [pc EXCEPT ![w] = RetryStep(config)]
                     /\ UNCHANGED <<result, future, taskRows, wtask>>
                ELSE CompleteTask(w, t, OnFetchRaise(outcome))
    /\ UNCHANGED <<config, scrape_jobs, clock, mainPc, queue, wake, site_locks, lockHolder,
                   site_last_request, summary, seen_jobs, all_jobs, returned,
                   prev_request, counted, grants>>

\* an increment that is lost
CountFailed_Lost(s) == s

\* summary.failed_queries += 1
CountFailed(s) == [s EXCEPT !.failed_queries = @ + 1]

\* summary.successful_queries += 1
CountSuccessful(s) == [s EXCEPT !.successful_queries = @ + 1]

\* one iteration of `for future in as_completed(futures)`
DrainFuture(t) ==
    /\ mainPc = "drain"
    /\ future[t] = "done"
    /\ LET error == result[t].error
           jobs_df == result[t].df
       IN  IF Truthy(error)
           THEN /\ summary' = CountFailed(summary)
                /\ counted' = [counted EXCEPT ![t] = "failed"]
                /\ UNCHANGED <<seen_jobs, all_jobs>>
           ELSE IF ~jobs_df.none /\ Len(jobs_df.rows) > 0
           THEN LET d == DedupLoop(jobs_df.rows, seen_jobs, <<>>)
                IN  /\ summary' = [CountSuccessful(summary) EXCEPT
                                     !.total_jobs_found = @ + Len(jobs_df.rows)]
                    /\ counted' = [counted EXCEPT ![t] = "successful"]
                    /\ seen_jobs' = d.seen
                    /\ all_jobs' = IF d.new_jobs # <<>>
                                   THEN Append(all_jobs, d.new_jobs)
                                   ELSE all_jobs
           ELSE /\ summary' = CountSuccessful(summary)
                /\ counted' = [counted EXCEPT ![t] = "successful"]
                /\ UNCHANGED <<seen_jobs, all_jobs>>
    /\ future' = [future EXCEPT ![t] = "consumed"]
    /\ result' = [result EXCEPT ![t] = SearchResult(NoneDf, NoneValue)]
    /\ UNCHANGED <<config, scrape_jobs, clock, mainPc, queue, pc, wtask, wake, attempt,
                   site_locks, lockHolder, site_last_request, returned,
                   prev_request, calls, grants, taskRows>>

\* after the executor's with block: combine, finish and return
ReturnFromSearch ==
    /\ mainPc = "drain"
    /\ \A t \in TaskIds : future[t] = "consumed"
    /\ IF all_jobs = <<>>
       THEN /\ summary' = [summary EXCEPT !.finished = TRUE]
            /\ returned' = [done |-> TRUE, df |-> NoneDf]
       ELSE LET combined_jobs == Concat(all_jobs)
            IN  /\ summary' = [summary EXCEPT !.unique_jobs = Len(combined_jobs),
                                              !.finished = TRUE]
                /\ returned' = [done |-> TRUE, df |-> DataFrame(combined_jobs)]
    /\ mainPc' = "returned"
    /\ UNCHANGED <<config, scrape_jobs, clock, queue, pc, wtask, wake, attempt, site_locks,
                   lockHolder, site_last_request, future, result, seen_jobs,
                   all_jobs, prev_request, calls, grants, counted, taskRows>>

\* a worker that has still to read or write the clock
ReadsClock(w) == pc[w] \in {"get_lock", "acquire", "locked", "sleeping"}

\* time passes (as long as some call of time.time() is still to come)
Tick ==
    /\ clock < MaxClock
    /\ config.throttling.enabled
    /\ mainPc = "drain"
    /\ queue # <<>> \/ \E w \in Workers : ReadsClock(w)
    /\ clock' = clock + 1
    /\ UNCHANGED <<config, scrape_jobs, mainPc, queue, pc, wtask, wake, attempt,
                   site_locks, lockHolder, site_last_request, future, result,
                   summary, seen_jobs, all_jobs, returned, prev_request,
                   calls, grants, counted, taskRows>>

(***************************************************************************)
(* Properties of search_jobs.                                               *)
(***************************************************************************)
KeysOf(rows) == { _generate_job_key(r) : r \in rows }

RowsWithKey(df, k) == { i \in DOMAIN df.rows : _generate_job_key(df.rows[i]) = k }

\* C1: when search_jobs returns, the merged result holds exactly one row for
\* every distinct job key among the rows the tasks returned, no other row,
\* and summary.unique_jobs is the number of those keys.
C1_OneRowPerJobKey ==
    returned.done =>
        /\ \A k \in KeysOf(taskRows) : Cardinality(RowsWithKey(returned.df, k)) = 1
        /\ \A i \in DOMAIN returned.df.rows :
               _generate_job_key(returned.df.rows[i]) \in KeysOf(taskRows)
        /\ summary.unique_jobs = Cardinality(KeysOf(taskRows))

\* both tasks returned two rows each, all four with the same key
C1_Witness ==
    /\ returned.done
    /\ summary.total_jobs_found = 4
    /\ Cardinality(taskRows) = 2
    /\ Cardinality(KeysOf(taskRows)) = 1
    /\ summary.unique_jobs = 1

\* the critical region of throttled_search: from the read of the last
\* request time to the write of the new one
InCritical(w) == pc[w] \in {"locked", "sleeping"}

\* C2: with throttling enabled, two consecutive recorded request times are at
\* least effective_delay * (1 - jitter) apart, and at most one worker is
\* inside the critical region.
C2_ThrottleSpacing ==
    /\ Cardinality({ w \in Workers : InCritical(w) }) <= 1
    /\ prev_request # 0 =>
         100 * (site_last_request - prev_request)
            >= EffectiveDelay(config) * (100 - config.throttling.jitter)

\* two grants are recorded exactly effective_delay apart without jitter,
\* while one worker sleeps inside the region and another waits for the lock
C2_Witness ==
    /\ config.throttling.jitter = 0
    /\ prev_request # 0
    /\ site_last_request - prev_request = EffectiveDelay(config)
    /\ \E w1, w2 \in Workers :
         /\ pc[w1] = "sleeping" /\ wake[w1] > clock
         /\ pc[w2] = "acquire"

Last(seq) == seq[Len(seq)]
IsError(kind) == kind \in {"transient", "permanent"}
Consumed == { t \in TaskIds : future[t] = "consumed" }

\* the invocation counts the retry policy prescribes, for a finished task
InvocationsFollowPolicy(t) ==
    LET c == calls[t]
        n == Len(c)
    IN  /\ n >= 1 /\ n <= config.retry.max_attempts
        /\ (\A i \in 1..n : c[i] = "transient") => n = config.retry.max_attempts
        /\ \A i \in 1..n : c[i] # "transient" => i = n

\* C3: a fetch that always raises a transient error is invoked max_attempts
\* times and its task is then recorded as failed; no invocation follows a
\* non-transient error or a success.
C3_RetryPolicy ==
    \A t \in Consumed :
        /\ InvocationsFollowPolicy(t)
        /\ (\A i \in 1..Len(calls[t]) : calls[t][i] = "transient")
              => counted[t] = "failed"

\* the invocation counts alone
C3_InvocationCounts == \A t \in Consumed : InvocationsFollowPolicy(t)

C5_ErrorsCountAsFailed ==
    /\ summary.failed_queries
          = Cardinality({ t \in Consumed : IsError(Last(calls[t])) })
    /\ summary.successful_queries
          = Cardinality({ t \in Consumed : ~IsError(Last(calls[t])) })

(***************************************************************************)
(* Relevance scoring and the relevance filter (scripts/search_jobs.py).     *)
(***************************************************************************)
\* keyword in text: the keyword occurs as a contiguous run of the text
IsSubstring(k, t) ==
    \E i \in 0..(Len(t) - Len(k)) : SubSeq(t, i + 1, i + Len(k)) = k

\* not text.strip(): nothing but whitespace
IsBlank(t) == \A i \in DOMAIN t : t[i] = " "

\* " ".join(str(row.get(field, "") or "") for field in (...)).lower()
JobText(row) ==
    Lower(row.title \o <<" ">> \o row.description \o <<" ">>
          \o row.company \o <<" ">> \o row.location)

\* any(keyword.lower() in text for keyword in keyword_list)
AnyKeywordIn(keyword_list, text) ==
    \E i \in DOMAIN keyword_list : IsSubstring(Lower(keyword_list[i]), text)

\* a weight that counts twice
CategoryWeight_Twice(weights, category) ==
    2 * (IF category \in DOMAIN weights THEN weights[category] ELSE 0)

\* weights.get(category, 0)
CategoryWeight(weights, category) ==
    IF category \in DOMAIN weights THEN weights[category] ELSE 0

\* the loop over keywords.items(), for the categories still to visit
RECURSIVE ScoreLoop(_, _, _, _)
ScoreLoop(rules, text, categories, score) ==
    IF categories = {} THEN score
    ELSE LET category == CHOOSE c \in categories : TRUE
             keyword_list == rules.keywords[category]
             gained == IF keyword_list = <<>> THEN 0
                       ELSE IF AnyKeywordIn(keyword_list, text)
                            THEN CategoryWeight(rules.weights, category)
                            ELSE 0
         IN  ScoreLoop(rules, text, categories \ {category}, score + gained)

calculate_relevance_score(row, rules) ==
    LET text == JobText(row)
    IN  IF IsBlank(text) THEN 0
        ELSE ScoreLoop(rules, text, DOMAIN rules.keywords, 0)

\* a threshold that lets ties through
PassesThreshold_Inclusive(score, threshold) == score >= threshold

\* jobs_df["relevance_score"] > threshold
PassesThreshold(score, threshold) == score > threshold

\* jobs_df[mask]: the rows that pass, in their order
RECURSIVE SelectRelevant(_, _)
SelectRelevant(df, threshold) ==
    IF df = <<>> THEN <<>>
    ELSE (IF PassesThreshold(Head(df).relevance_score, threshold)
          THEN <<Head(df)>> ELSE <<>>)
         \o SelectRelevant(Tail(df), threshold)

\* sort_values("relevance_score", ascending=False): the orders the sort can
\* give (it is not stable, rows of equal score come in any order)
SortValuesDescending(df) ==
    { [i \in 1..Len(df) |-> df[p[i]]] : p \in Permutations(1..Len(df)) }

IsDescending(df) ==
    \A i \in 1..(Len(df) - 1) : df[i].relevance_score >= df[i + 1].relevance_score

\* jobs the filter can be given: title, description, company, location
Job(t, d, c, l) == [title |-> t, description |-> d, company |-> c, location |-> l]

JobUniverse ==
    { Job(<<"A", "r">>, <<>>, <<>>, <<>>),
      Job(<<"a">>, <<"r">>, <<>>, <<>>),
      Job(<<"r">>, <<>>, <<>>, <<"A">>),
      Job(<<>>, <<>>, <<>>, <<>>) }

InputFrames == UNION { [1..n -> JobUniverse] : n \in 1..MaxJobs }

\* config.scoring: nothing validates the keywords or the weights
Categories == {"primary", "secondary"}
KeywordUniverse == { <<>>, <<"a">>, <<"A", "R">>, <<" ">> }
KeywordLists == UNION { [1..n -> KeywordUniverse] : n \in 0..MaxKeywords }
KeywordMaps ==
    { [c \in Categories |-> IF c = "primary" THEN kp ELSE ks] :
        kp \in KeywordLists, ks \in { <<>>, << <<"r">> >> } }
\* _parse_scoring_config copies the weights as they are: a negative weight
\* is accepted
WeightMaps == UNION { [present -> {-3, 3, 5}] : present \in SUBSET Categories }
ScoringConfigs ==
    [threshold : {0, 3}, weights : WeightMaps, keywords : KeywordMaps]

\* nothing has been scored or filtered
ScoreIdle ==
    /\ scoring = CHOOSE c \in ScoringConfigs : TRUE
    /\ input_df = CHOOSE df \in InputFrames : TRUE
    /\ scored = NoneDf
    /\ relevant_jobs = NoneDf

ScoreInit ==
    /\ scoring \in ScoringConfigs
    /\ input_df \in InputFrames
    /\ scored = NoneDf
    /\ relevant_jobs = NoneDf

\* jobs_df.apply(lambda row: calculate_relevance_score(row, config), axis=1);
\* idx is the row's index label, which the filter and the sort keep
WithRelevanceScore(df, rules) ==
    [i \in DOMAIN df |->
        [idx |-> i, row |-> df[i],
         relevance_score |-> calculate_relevance_score(df[i], rules)]]

\* filter_relevant_jobs(jobs_df, config)
FilterRelevantJobs ==
    /\ relevant_jobs = NoneDf
    /\ LET with_scores == WithRelevanceScore(input_df, scoring)
           passing == SelectRelevant(with_scores, scoring.threshold)
       IN  /\ scored' = DataFrame(with_scores)
           /\ \E sorted \in SortValuesDescending(passing) :
                /\ IsDescending(sorted)
                /\ relevant_jobs' = DataFrame(sorted)
    /\ UNCHANGED <<scoring, input_df>>

(***************************************************************************)
(* The functions modelled on their own: nothing has been called.           *)
(***************************************************************************)
\* fuzzy_post_filter has not been called
FilterIdle ==
    /\ pf_config = [enabled |-> FALSE, min_similarity |-> 100,
                    check_query_terms |-> FALSE, check_location |-> FALSE]
    /\ pf_query = <<>>
    /\ pf_location = <<>>
    /\ pf_jobs_df = <<>>
    /\ pf_filtered_df = NoneDf

\* _fuzzy_word_match has not been called
MatchIdle ==
    /\ fm_word = <<>>
    /\ fm_text = <<>>
    /\ fm_min_similarity = 100
    /\ fm_result = [none |-> TRUE, given |-> FALSE, normalized |-> FALSE]

\* no key has been computed
KeyIdle ==
    /\ key_rows = <<>>
    /\ key_result = [none |-> TRUE, keys |-> <<>>, job_ids |-> <<>>, new_jobs |-> <<>>]

\* load_config has not been called
LoadIdle ==
    /\ yaml_data = <<>>
    /\ loaded = "pending"

\* the database is not in use
DbIdle ==
    /\ db_jobs = <<>>
    /\ db_saved = <<>>
    /\ db_last = [none |-> TRUE]
    /\ db_calls = 0

\* _schedule_next_run has not been called on its own
NextRunIdle ==
    /\ nr_start = 0
    /\ nr_now = 0
    /\ nr_interval_hours = 1
    /\ nr_result = [none |-> TRUE]

PureIdle == FilterIdle /\ MatchIdle /\ KeyIdle /\ LoadIdle /\ DbIdle /\ NextRunIdle

(***************************************************************************)
(* JobSearchScheduler (scripts/scheduler.py) in recurring mode.             *)
(*                                                                         *)
(* The scheduler object is APScheduler's BlockingScheduler.  Its jobs have  *)
(* date triggers: a job fires once, at its run date, and is then removed.   *)
(* A fired job runs _execute_job on a thread of the executor's pool, so     *)
(* runs of different job ids can overlap; a job id whose previous run is    *)
(* still in flight is skipped (max_instances = 1), and a job processed      *)
(* after its run date is dropped as missed (misfire grace of one second).   *)
(* Jobs added before BlockingScheduler.start() wait until it is called.     *)
(***************************************************************************)
NoJob == -1
NoRun == [id |-> "none", start |-> -1, end |-> -1, outcome |-> "none"]
Slots == {"startup", "main_job", "retry_job"}
RunSlots == Slots \cup {"run_once"}
JobIds == {"main_job", "retry_job"}
Outcomes == {"true", "false", "raise"}

SchedulerConfigs ==
    [ enabled : BOOLEAN,
      interval_hours : {1, 2},
      run_on_startup : BOOLEAN,
      retry_on_failure : BOOLEAN,
      retry_delay_minutes : {0, 30, 60} ]

\* timedelta(hours=h) and timedelta(minutes=m), in ticks of 30 minutes
Hours(h) == h * 2
Minutes(m) == m \div 30

\* _schedule_next_run registering a multiple of the interval too far
ScheduleNextRunTime_TwoIntervals(current_run_start, t_now, interval) ==
    current_run_start + 2 * interval

\* a count of intervals that stops at the slot just passed
IntervalsPassed_Floor(time_since_start, interval) == time_since_start \div interval

\* int(time_since_start / interval) + 1
IntervalsPassed(time_since_start, interval) == (time_since_start \div interval) + 1

\* _schedule_next_run: the run date it gives the "main_job" trigger
ScheduleNextRunTime(current_run_start, t_now, interval) ==
    LET next_run_time == current_run_start + interval
    IN  IF next_run_time <= t_now
        THEN LET time_since_start == t_now - current_run_start
                 intervals_passed == IntervalsPassed(time_since_start, interval)
             IN  current_run_start + (interval * intervals_passed)
        ELSE next_run_time

\* _schedule_next_run: the warning it logs, with the number of skipped slots
SkippedSlotsWarning(current_run_start, t_now, interval) ==
    IF current_run_start + interval <= t_now
    THEN [logged |-> TRUE,
          skipped |-> IntervalsPassed(t_now - current_run_start, interval) - 1]
    ELSE [logged |-> FALSE, skipped |-> 0]

\* a retry date that forgets the delay
RetryTime_NoDelay(t_now, delay_minutes) == t_now

\* _schedule_retry: retry_time = datetime.now() + timedelta(minutes=delay)
RetryTime(t_now, delay_minutes) == t_now + Minutes(delay_minutes)

\* scheduler.add_job(..., id=id, replace_existing=True)
AddJob(js, id, run_date) == [js EXCEPT ![id] = run_date]

\* the job leaves the store once its date trigger has fired
RemoveJob(js, id) == [js EXCEPT ![id] = NoJob]

\* JobSearchScheduler.__init__
Constructed ==
    /\ now = 0
    /\ mainAt = "constructed"
    /\ _scheduler = "None"
    /\ _running = FALSE
    /\ jobs = [j \in JobIds |-> NoJob]
    /\ inflight = [s \in RunSlots |-> NoRun]
    /\ _run_count = 0
    /\ _last_run_success = FALSE
    /\ lastStart = NoRun
    /\ lastEnd = NoRun
    /\ lastExit = "none"
    /\ stop_requested = FALSE

SchedInit ==
    /\ sconfig \in SchedulerConfigs
    /\ Constructed

SchedIdle ==
    /\ Constructed
    /\ sconfig = [enabled |-> TRUE, interval_hours |-> 1, run_on_startup |-> TRUE,
                  retry_on_failure |-> TRUE, retry_delay_minutes |-> 30]

\* another run of _execute_job was begun by the executor at this very
\* instant, on another thread of its pool
RacingStart(slot) ==
    \E other \in JobIds \ {slot} :
        inflight[other] # NoRun /\ inflight[other].start = now

\* self._run_count += 1: a read and a write of the attribute, with no lock.
\* Two runs begun together can both read the old value, and one increment
\* is then lost.
IncrementRunCount(count, racing) ==
    IF racing THEN {count, count + 1} ELSE {count + 1}

\* _execute_job up to the call of job_function, for the run in `slot`;
\* js is the job store and sched the scheduler object as the run finds them
ExecuteJobBegin(slot, js, sched) ==
    LET run_start == now
    IN  /\ _run_count' \in IncrementRunCount(_run_count, RacingStart(slot))
        /\ jobs' = IF sched # "None" /\ sconfig.enabled
                   THEN AddJob(js, "main_job",
                               ScheduleNextRunTime(run_start, now,
                                                   Hours(sconfig.interval_hours)))
                   ELSE js
        /\ inflight' = [inflight EXCEPT ![slot] =
                          [id |-> slot, start |-> run_start, end |-> -1,
                           outcome |-> "none"]]
        /\ lastStart' = inflight'[slot]

\* `except Exception`: the clause handles what job_function raises
ExceptHandles(outcome) == outcome = "raise"

\* the job function a run: what it can return for what search_jobs returned
\* it.  With no rows it returns True; with rows the later stages (saving,
\* database, notifications) decide.
run_job_search_EmptyFails(all_jobs_df) == {"false"}

run_job_search(all_jobs_df) ==
    IF all_jobs_df.none \/ Len(all_jobs_df.rows) = 0
    THEN {"true"}
    ELSE {"true", "false"}

\* _execute_job: does the run's outcome make it call _schedule_retry, and
\* does _schedule_retry then add the job
RetryWanted(outcome, scfg, sched) ==
    outcome # "true" /\ scfg.retry_on_failure /\ sched # "None"

\* _execute_job from the return (or exception) of job_function to its end;
\* the method returns None
ExecuteJobEnd(slot, outcome) ==
    /\ _last_run_success' = (outcome = "true")
    /\ jobs' = IF RetryWanted(outcome, sconfig, _scheduler)
               THEN AddJob(jobs, "retry_job", RetryTime(now, sconfig.retry_delay_minutes))
               ELSE jobs
    /\ lastExit' = IF outcome = "raise" /\ ~ExceptHandles(outcome)
                   THEN "exception" ELSE "None"
    /\ lastEnd' = [inflight[slot] EXCEPT !.end = now, !.outcome = outcome]
    /\ inflight' = [inflight EXCEPT ![slot] = NoRun]

\* start(), scheduler enabled, run_on_startup: the initial run begins
StartWithStartupRun ==
    /\ mainAt = "constructed"
    /\ sconfig.enabled /\ sconfig.run_on_startup
    /\ _running' = TRUE
    /\ _scheduler' = "stopped"
    /\ ExecuteJobBegin("startup", jobs, "stopped")
    /\ mainAt' = "startup_run"
    /\ UNCHANGED <<sconfig, now, _last_run_success, lastEnd, lastExit,
                   stop_requested>>

\* the initial run ends and start() calls self._scheduler.start()
StartupRunEnds ==
    /\ mainAt = "startup_run"
    /\ now > inflight["startup"].start
    /\ \E outcome \in Outcomes : ExecuteJobEnd("startup", outcome)
    /\ _scheduler' = "running"
    /\ mainAt' = "blocking"
    /\ UNCHANGED <<sconfig, now, _running, _run_count, lastStart,
                   stop_requested>>

\* start(), scheduler enabled, no run on startup: the first run is
\* scheduled one interval from now and self._scheduler.start() is called
StartScheduled ==
    /\ mainAt = "constructed"
    /\ sconfig.enabled /\ ~sconfig.run_on_startup
    /\ _running' = TRUE
    /\ jobs' = AddJob(jobs, "main_job", now + Hours(sconfig.interval_hours))
    /\ _scheduler' = "running"
    /\ mainAt' = "blocking"
    /\ UNCHANGED <<sconfig, now, inflight, _run_count, _last_run_success,
                   lastStart, lastEnd, lastExit, stop_requested>>

\* a job whose run date has come
Due(id) == jobs[id] # NoJob /\ jobs[id] <= now

\* the executor's misfire check: the run date passed more than 1 s ago
Misfired(id) == now > jobs[id]

\* the executor's instance check: max_instances = 1 per job id
InstanceRunning(id) == inflight[id] # NoRun

\* the scheduler processes a due job: the job runs _execute_job
FireJob(id) ==
    /\ _scheduler = "running"
    /\ Due(id)
    /\ ~Misfired(id) /\ ~InstanceRunning(id)
    /\ ExecuteJobBegin(id, RemoveJob(jobs, id), _scheduler)
    /\ UNCHANGED <<sconfig, now, mainAt, _scheduler, _running,
                   _last_run_success, lastEnd, lastExit, stop_requested>>

\* the scheduler processes a due job that cannot run: it is dropped
DropJob(id) ==
    /\ _scheduler = "running"
    /\ Due(id)
    /\ Misfired(id) \/ InstanceRunning(id)
    /\ jobs' = RemoveJob(jobs, id)
    /\ UNCHANGED <<sconfig, now, mainAt, _scheduler, _running, inflight,
                   _run_count, _last_run_success, lastStart, lastEnd,
                   lastExit, stop_requested>>

\* a scheduled run's job_function returns or raises
RunEnds(id) ==
    /\ inflight[id] # NoRun
    /\ now > inflight[id].start
    /\ \E outcome \in Outcomes : ExecuteJobEnd(id, outcome)
    /\ UNCHANGED <<sconfig, now, mainAt, _scheduler, _running, _run_count,
                   lastStart, stop_requested>>

\* time passes; a running scheduler wakes at every run date, and no run
\* lasts longer than MaxDuration
SchedTick ==
    /\ now < MaxNow
    /\ mainAt # "constructed"
    /\ _scheduler = "running" => \A id \in JobIds : ~Due(id)
    /\ \A s \in RunSlots : inflight[s] # NoRun => now - inflight[s].start < MaxDuration
    /\ now' = now + 1
    /\ UNCHANGED <<sconfig, mainAt, _scheduler, _running, jobs, inflight,
                   _run_count, _last_run_success, lastStart, lastEnd,
                   lastExit, stop_requested>>

\* run_once() in single-shot mode (called by main(), or by start() when the
\* scheduler is disabled), up to the call of job_function
RunOnceBegin ==
    /\ ~sconfig.enabled
    /\ mainAt \in {"constructed", "returned"}
    /\ _run_count' = _run_count + 1
    /\ inflight' = [inflight EXCEPT !["run_once"] =
                      [id |-> "run_once", start |-> now, end |-> -1,
                       outcome |-> "none"]]
    /\ lastStart' = inflight'["run_once"]
    /\ mainAt' = "run_once"
    /\ UNCHANGED <<sconfig, now, _scheduler, _running, jobs, _last_run_success,
                   lastEnd, lastExit, stop_requested>>

\* what run_once returns: self._last_run_success as just assigned, or False
\* from the except clause
RunOnceReturn(outcome) ==
    IF outcome = "raise"
    THEN IF ExceptHandles(outcome) THEN "False" ELSE "exception"
    ELSE IF outcome = "true" THEN "True" ELSE "False"

\* run_once() from the return (or exception) of job_function to its return;
\* the assignment to self._last_run_success does not happen when
\* job_function raises
RunOnceEnd ==
    /\ mainAt = "run_once"
    /\ now > inflight["run_once"].start
    /\ \E outcome \in Outcomes :
         /\ _last_run_success' = IF outcome = "raise" THEN _last_run_success
                                 ELSE (outcome = "true")
         /\ lastExit' = RunOnceReturn(outcome)
         /\ lastEnd' = [inflight["run_once"] EXCEPT !.end = now,
                                                   !.outcome = outcome]
    /\ inflight' = [inflight EXCEPT !["run_once"] = NoRun]
    /\ mainAt' = "returned"
    /\ UNCHANGED <<sconfig, now, _scheduler, _running, jobs, _run_count,
                   lastStart, stop_requested>>

\* stop(), called directly or by the SIGINT/SIGTERM handler, once start()
\* is under way: the BlockingScheduler is shut down only if it is running
Stop ==
    /\ mainAt \in {"startup_run", "blocking"}
    /\ ~stop_requested
    /\ stop_requested' = TRUE
    /\ _running' = FALSE
    /\ _scheduler' = IF _scheduler = "running" THEN "None" ELSE _scheduler
    /\ mainAt' = IF _scheduler = "running" THEN "returned" ELSE mainAt
    /\ UNCHANGED <<sconfig, now, jobs, inflight, _run_count, _last_run_success,
                   lastStart, lastEnd, lastExit>>

\* the search and the scheduler: nothing has been called
CoreIdle == SchedIdle /\ SearchInit({ CHOOSE c \in SearchConfigs : TRUE }, {{}})

\* the search run is not part of the scheduler's state machine
SearchIdle ==
    /\ SearchInit({ CHOOSE c \in SearchConfigs : TRUE }, {{}})
    /\ ScoreIdle
    /\ PureIdle

SchedNext ==
    \/ StartWithStartupRun /\ UNCHANGED <<searchVars, scoreVars, pureVars>>
    \/ StartupRunEnds /\ UNCHANGED <<searchVars, scoreVars, pureVars>>
    \/ StartScheduled /\ UNCHANGED <<searchVars, scoreVars, pureVars>>
    \/ \E id \in JobIds : FireJob(id) /\ UNCHANGED <<searchVars, scoreVars, pureVars>>
    \/ \E id \in JobIds : DropJob(id) /\ UNCHANGED <<searchVars, scoreVars, pureVars>>
    \/ \E id \in JobIds : RunEnds(id) /\ UNCHANGED <<searchVars, scoreVars, pureVars>>
    \/ SchedTick /\ UNCHANGED <<searchVars, scoreVars, pureVars>>
    \/ RunOnceBegin /\ UNCHANGED <<searchVars, scoreVars, pureVars>>
    \/ RunOnceEnd /\ UNCHANGED <<searchVars, scoreVars, pureVars>>

\* a constructed scheduler, before start()
SchedStart == SchedInit /\ SearchIdle

\* start() in recurring mode and run_once() in single-shot mode, with no
\* stop request
SchedSpec == SchedStart /\ [][SchedNext]_vars

StopNext ==
    \/ SchedNext
    \/ Stop /\ UNCHANGED <<searchVars, scoreVars, pureVars>>

\* the scheduler with a stop request arriving at any moment
StopSpec == SchedStart /\ [][StopNext]_vars

(***************************************************************************)
(* Properties of the scheduler.                                             *)
(***************************************************************************)
Interval == Hours(sconfig.interval_hours)
RegularSlots == {"startup", "main_job"}
Begins(slot) == inflight[slot] = NoRun /\ inflight'[slot] # NoRun
Ends(slot) == inflight[slot] # NoRun /\ inflight'[slot] = NoRun

\* C6: with interval = 1h, after a regular run that started at T and took 90
\* minutes the next run is triggered at T + 2h: no run starts at T + 1h or
\* at the completion, the pending regular trigger is T + 2h, and a run
\* starts then.  (Stated with retry_on_failure off, so that no retry run
\* takes part.)
C6_CadenceDrift ==
    ( /\ sconfig.interval_hours = 1
      /\ ~sconfig.retry_on_failure
      /\ lastEnd.id \in RegularSlots
      /\ lastEnd.end - lastEnd.start = 3 )
    => /\ lastStart.start \notin {lastEnd.start + Interval, lastEnd.end}
       /\ now < lastEnd.start + 2 * Interval
             => jobs["main_job"] = lastEnd.start + 2 * Interval
       /\ now >= lastEnd.start + 2 * Interval
             => lastStart.start = lastEnd.start + 2 * Interval

C8_RetryOnFailure ==
    [][ \A slot \in Slots :
          Ends(slot) =>
             IF lastEnd'.outcome # "true" /\ sconfig.retry_on_failure
             THEN jobs'["retry_job"] = now + Minutes(sconfig.retry_delay_minutes)
             ELSE jobs'["retry_job"] = jobs["retry_job"] ]_vars

\* a run raised and its retry is pending, retry_delay_minutes later
C8_Witness ==
    /\ lastEnd.outcome = "raise"
    /\ sconfig.retry_on_failure
    /\ sconfig.retry_delay_minutes > 0
    /\ now = lastEnd.end
    /\ jobs["retry_job"] = lastEnd.end + Minutes(sconfig.retry_delay_minutes)

\* C9: scheduling a retry and beginning or ending a retry run leave the
\* regular trigger as it was.
C9_RetryLeavesCadence ==
    [][ (jobs'["retry_job"] # jobs["retry_job"]
           \/ inflight'["retry_job"] # inflight["retry_job"])
        => jobs'["main_job"] = jobs["main_job"] ]_vars

\* C10: at most one run of the job function is in flight.
C10_OneRunInFlight ==
    Cardinality({ slot \in Slots : inflight[slot] # NoRun }) <= 1

\* C11: once stop() has been called after start(), no step begins a run of
\* the job function.
C11_NoRunAfterStop ==
    [][ stop_requested => \A slot \in RunSlots : ~Begins(slot) ]_vars

\* a run whose job function raised has just ended
RaisedRunEnds(slot) == Ends(slot) /\ lastEnd'.outcome = "raise"

\* the exception stays inside the call, the run counts as failed and the
\* retry policy applies
ExceptionContained(slot) ==
    /\ lastExit' # "exception"
    /\ slot = "run_once" => lastExit' = "False"
    /\ slot \in Slots =>
          /\ ~_last_run_success'
          /\ sconfig.retry_on_failure
                => jobs'["retry_job"] = now + Minutes(sconfig.retry_delay_minutes)

\* C12: an exception of the job function does not leave run_once or
\* _execute_job: run_once returns False, the retry policy applies, and in
\* recurring mode a regular trigger that is still to fire is scheduled
\* after the run.
C12_ExceptionsHandled ==
    [][ \A slot \in RunSlots :
          RaisedRunEnds(slot) =>
             /\ ExceptionContained(slot)
             /\ slot \in Slots =>
                   /\ jobs'["main_job"] # NoJob
                   /\ jobs'["main_job"] >= now ]_vars

\* the containment of the exception alone
C12_ExceptionContained ==
    [][ \A slot \in RunSlots :
          RaisedRunEnds(slot) => ExceptionContained(slot) ]_vars

\* C13: in recurring mode with no stop request, at every moment a run is in
\* flight or a regular trigger that will fire is pending.
C13_CadenceNeverDies ==
    (sconfig.enabled /\ mainAt = "blocking")
    => \/ \E slot \in Slots : inflight[slot] # NoRun
       \/ jobs["main_job"] # NoJob /\ jobs["main_job"] >= now

\* C14: last_run_success tells whether the job function of the run that
\* ended most recently returned True.
C14_LastRunSuccess ==
    lastEnd # NoRun => (_last_run_success <=> lastEnd.outcome = "true")

\* C15: a step that begins a run adds one to run_count, and no other step
\* changes it.
C15_RunCount ==
    [][ IF \E slot \in RunSlots : Begins(slot)
        THEN _run_count' = _run_count + 1
        ELSE _run_count' = _run_count ]_vars

(***************************************************************************)
(* search_jobs: empty results and the throttle's delay.                     *)
(***************************************************************************)
\* C16: when no task yields a row that survives, search_jobs returns None
\* with a finished summary whose unique_jobs is 0, run_job_search returns
\* True, and no scheduler configuration makes _execute_job add a retry.
C16_EmptyResult ==
    (returned.done /\ taskRows = {})
    => /\ returned.df = NoneDf
       /\ summary.unique_jobs = 0
       /\ summary.finished
       /\ run_job_search(returned.df) = {"true"}
       /\ \A scfg \in SchedulerConfigs :
             \A outcome \in run_job_search(returned.df) :
                ~RetryWanted(outcome, scfg, "running")

\* a run has returned nothing: one task failed, another task's rows were all
\* filtered out
C16_Witness ==
    /\ returned.done
    /\ returned.df = NoneDf
    /\ \E t \in TaskIds : counted[t] = "failed"
    /\ \E t \in TaskIds : Last(calls[t]) = "rows" /\ result[t].df = NoneDf

\* delay(site): the per-site override when there is one, default_delay
\* otherwise
SiteDelay(cfg, site) ==
    IF SiteLower(site) \in DOMAIN cfg.throttling.site_delays
    THEN cfg.throttling.site_delays[SiteLower(site)]
    ELSE cfg.throttling.default_delay

\* the largest delay(site) over the sites configured for the search
MaxOverSites(cfg) ==
    LET delays == { SiteDelay(cfg, cfg.search.sites[i]) : i \in DOMAIN cfg.search.sites }
    IN  CHOOSE d \in delays : \A e \in delays : d >= e

\* C17: the delay a throttled call has computed is the maximum over the
\* configured sites of delay(site); default_delay counts only through a site
\* with no override.
C17_EffectiveDelay ==
    \A w \in Workers :
        pc[w] = "sleeping" => EffectiveDelay(config) = MaxOverSites(config)

\* C18: with throttling disabled throttled_search does not wait, does not
\* take the throttle lock and leaves the locks map and the last-request time
\* as they were; a finished call has performed the fetch.
C18_ThrottlingDisabled ==
    ~config.throttling.enabled
    => /\ site_locks = {}
       /\ lockHolder = NoWorker
       /\ site_last_request = 0
       /\ \A w \in Workers : pc[w] \in {"idle", "search"} /\ wake[w] = 0
       /\ \A t \in TaskIds : future[t] # "pending" => calls[t] # <<>>

\* an unthrottled run has returned rows
C18_Witness ==
    /\ ~config.throttling.enabled
    /\ returned.done
    /\ ~returned.df.none
    /\ \A t \in TaskIds : calls[t] # <<>>

(***************************************************************************)
(* Properties of the relevance score and of the relevance filter.           *)
(***************************************************************************)
\* the categories one of whose keywords occurs in the job's text, whatever
\* the case of the letters
MatchedCategories(row, rules) ==
    { c \in DOMAIN rules.keywords :
        \E i \in DOMAIN rules.keywords[c] :
            IsSubstring(Lower(rules.keywords[c][i]), JobText(row)) }

RECURSIVE SumOfWeights(_, _)
SumOfWeights(weights, categories) ==
    IF categories = {} THEN 0
    ELSE LET c == CHOOSE x \in categories : TRUE
         IN  (IF c \in DOMAIN weights THEN weights[c] ELSE 0)
             + SumOfWeights(weights, categories \ {c})

ScoredRows == { scored.rows[i] : i \in DOMAIN scored.rows }

\* C19: the score of every job is the sum of the weights of the categories
\* that have a keyword in its text, each category once, an absent weight
\* counting 0.
C19_CategorySum ==
    \A r \in ScoredRows :
        r.relevance_score
            = SumOfWeights(scoring.weights, MatchedCategories(r.row, scoring))

\* C19 as the code has it: the sum of the matched categories' weights for a
\* job whose text is not blank, and 0 for a job whose text is blank,
\* whatever keywords occur in it.
C19_CategorySumUnlessBlank ==
    \A r \in ScoredRows :
        r.relevance_score
            = IF IsBlank(JobText(r.row)) THEN 0
              ELSE SumOfWeights(scoring.weights, MatchedCategories(r.row, scoring))

\* a job matches two keywords of a weighted category and a keyword of a
\* category with no weight: it scores the one weight
C19_Witness ==
    \E r \in ScoredRows :
        /\ ~IsBlank(JobText(r.row))
        /\ Len(scoring.keywords["primary"]) = 2
        /\ scoring.keywords["primary"][1] # scoring.keywords["primary"][2]
        /\ \A i \in 1..2 :
              IsSubstring(Lower(scoring.keywords["primary"][i]), JobText(r.row))
        /\ "secondary" \in MatchedCategories(r.row, scoring)
        /\ DOMAIN scoring.weights = {"primary"}
        /\ r.relevance_score = scoring.weights["primary"]

\* the index labels of the rows the filter returned
KeptLabels == { relevant_jobs.rows[i].idx : i \in DOMAIN relevant_jobs.rows }

\* C20: the filter returns exactly the jobs whose score is strictly greater
\* than the threshold, each once.
C20_StrictThreshold ==
    ~relevant_jobs.none
    => /\ KeptLabels = { r.idx : r \in { x \in ScoredRows :
                                          x.relevance_score > scoring.threshold } }
       /\ Len(relevant_jobs.rows) = Cardinality(KeptLabels)

\* a job above the threshold was kept and a job at the threshold was dropped
C20_Witness ==
    /\ ~relevant_jobs.none
    /\ scoring.threshold > 0
    /\ \E r \in ScoredRows :
          r.relevance_score = scoring.threshold /\ r.idx \notin KeptLabels
    /\ \E r \in ScoredRows :
          r.relevance_score > scoring.threshold /\ r.idx \in KeptLabels

\* C21: the relevance score of every job is an integer that is at least 0,
\* whatever integer weights the scoring rules carry.
C21_ScoreNonNegative ==
    \A r \in ScoredRows : r.relevance_score \in Nat

(***************************************************************************)
(* Fuzzy matching and the post-filter (scripts/search_jobs.py).            *)
(*                                                                         *)
(* The texts of the model are written with ASCII letters, the letters      *)
(* ü Ü ß and the space: after normalization every character is a           *)
(* lower-case ASCII letter or a space, so the words the regular expression  *)
(* \b[a-z0-9+#]+\b finds are the maximal runs of letters.                   *)
(***************************************************************************)
\* the replacements table of _normalize_text, for one character
FoldChar(c) ==
    CASE c = "ü" -> <<"u">>
      [] c = "ö" -> <<"o">>
      [] c = "ä" -> <<"a">>
      [] c = "ß" -> <<"s", "s">>
      [] c = "é" -> <<"e">>
      [] c = "è" -> <<"e">>
      [] c = "ê" -> <<"e">>
      [] c = "à" -> <<"a">>
      [] c = "â" -> <<"a">>
      [] c = "î" -> <<"i">>
      [] c = "ô" -> <<"o">>
      [] c = "û" -> <<"u">>
      [] c = "ç" -> <<"c">>
      [] c = "ñ" -> <<"n">>
      [] OTHER -> <<c>>

RECURSIVE FoldAll(_)
FoldAll(s) == IF s = <<>> THEN <<>> ELSE FoldChar(Head(s)) \o FoldAll(Tail(s))

\* text.lower(), then every replacement of the table
_normalize_text(text) == FoldAll(Lower(text))

\* re.findall(r"\b[a-z0-9+#]+\b", normalized): the maximal runs of letters
\* of a normalized text, in order; word is the run being read
RECURSIVE FindAll(_, _)
FindAll(normalized, word) ==
    IF normalized = <<>> THEN (IF word = <<>> THEN <<>> ELSE <<word>>)
    ELSE IF Head(normalized) = " "
         THEN (IF word = <<>> THEN <<>> ELSE <<word>>)
              \o FindAll(Tail(normalized), <<>>)
         ELSE FindAll(Tail(normalized), Append(word, Head(normalized)))

\* the stop words that occur in the texts of the model
stop_words ==
    { <<"o", "r">>, <<"i", "n">>, <<"o", "n">>, <<"t", "o">>, <<"i", "s">>,
      <<"i", "t">>, <<"i", "t", "s">>, <<"i">>, <<"m", "u", "s", "t">> }

\* [w for w in words if w not in stop_words and len(w) > 1]
_extract_words(text) ==
    SelectSeq(FindAll(_normalize_text(text), <<>>),
              LAMBDA w : w \notin stop_words /\ Len(w) > 1)

\* length of the longest common subsequence
RECURSIVE LCS(_, _)
LCS(a, b) ==
    IF a = <<>> \/ b = <<>> THEN 0
    ELSE IF Head(a) = Head(b) THEN 1 + LCS(Tail(a), Tail(b))
    ELSE Max(LCS(Tail(a), b), LCS(a, Tail(b)))

\* fuzz.ratio(a, b) >= min_similarity: the ratio is the normalized Indel
\* similarity 100 * 2 * LCS / (len(a) + len(b)), 100 for two empty strings
fuzz_ratio_at_least(a, b, min_similarity) ==
    IF Len(a) + Len(b) = 0 THEN TRUE
    ELSE 200 * LCS(a, b) >= min_similarity * (Len(a) + Len(b))

\* the pieces of the longer string that fuzz.partial_ratio aligns the
\* shorter one with: its windows of the shorter one's length and the
\* shorter windows hanging over either end
PartialWindows(long, m) ==
    LET n == Len(long)
    IN  { SubSeq(long, 1, j) : j \in 1..(m - 1) }
        \cup { SubSeq(long, i, i + m - 1) : i \in 1..(n - m + 1) }
        \cup { SubSeq(long, i, n) : i \in (n - m + 2)..n }

\* fuzz.partial_ratio(a, b) >= min_similarity
fuzz_partial_ratio_at_least(a, b, min_similarity) ==
    LET short == IF Len(a) <= Len(b) THEN a ELSE b
        long == IF Len(a) <= Len(b) THEN b ELSE a
    IN  IF short = <<>> THEN long = <<>>
        ELSE \E w \in PartialWindows(long, Len(short)) :
                fuzz_ratio_at_least(short, w, min_similarity)

\* a matcher with no fast path
SubstringFastPath_Off(normalized_word, normalized_text) == FALSE

\* normalized_word in normalized_text
SubstringFastPath(normalized_word, normalized_text) ==
    IsSubstring(normalized_word, normalized_text)

_fuzzy_word_match(word, text, min_similarity) ==
    LET normalized_word == _normalize_text(word)
        normalized_text == _normalize_text(text)
        text_words == _extract_words(text)
    IN  IF SubstringFastPath(normalized_word, normalized_text) THEN TRUE
        ELSE \E i \in DOMAIN text_words :
                \/ fuzz_ratio_at_least(normalized_word, text_words[i], min_similarity)
                \/ fuzz_partial_ratio_at_least(normalized_word, text_words[i],
                                               min_similarity)

\* " ".join(parts): the fields that have a value, in order
RECURSIVE JoinParts(_)
JoinParts(parts) ==
    IF parts = <<>> THEN <<>>
    ELSE IF Len(parts) = 1 THEN Head(parts)
    ELSE Head(parts) \o <<" ">> \o JoinParts(Tail(parts))

_get_job_text(row) ==
    JoinParts(SelectSeq(<<row.title, row.description, row.company, row.location>>,
                        LAMBDA value : value # <<>>))

\* location_terms: none when the location is not checked or is "remote"
LocationTerms(post_filter, location) ==
    IF post_filter.check_location /\ Lower(location) # <<"r", "e", "m", "o", "t", "e">>
    THEN _extract_words(location)
    ELSE <<>>

\* a query check that one matching term satisfies
QueryMatch_Any(post_filter, query_terms, job_text) ==
    IF post_filter.check_query_terms
    THEN \E i \in DOMAIN query_terms :
            _fuzzy_word_match(query_terms[i], job_text, post_filter.min_similarity)
    ELSE TRUE

\* query_match: all the query terms match, when the query is checked
QueryMatch(post_filter, query_terms, job_text) ==
    IF post_filter.check_query_terms
    THEN \A i \in DOMAIN query_terms :
            _fuzzy_word_match(query_terms[i], job_text, post_filter.min_similarity)
    ELSE TRUE

\* location_match: one of the location terms matches, when there are any
LocationMatch(post_filter, location_terms, job_text) ==
    IF location_terms # <<>>
    THEN \E i \in DOMAIN location_terms :
            _fuzzy_word_match(location_terms[i], job_text, post_filter.min_similarity)
    ELSE TRUE

\* the rows of the frame with their index labels
Labelled(df) == [i \in DOMAIN df |-> [idx |-> i, row |-> df[i]]]

\* fuzzy_post_filter(jobs_df, query, location, config), on the rows of
\* jobs_df with their index labels
FuzzyPostFilterResult(df, query, location, post_filter) ==
    LET query_terms == _extract_words(query)
        location_terms == LocationTerms(post_filter, location)
    IN  IF ~post_filter.enabled THEN Labelled(df)
        ELSE IF Len(df) = 0 THEN Labelled(df)
        ELSE IF query_terms = <<>> /\ location_terms = <<>> THEN Labelled(df)
        ELSE SelectSeq(Labelled(df),
                LAMBDA r :
                    /\ QueryMatch(post_filter, query_terms, _get_job_text(r.row))
                    /\ LocationMatch(post_filter, location_terms,
                                     _get_job_text(r.row)))

\* config.post_filter: _parse_post_filter_config keeps min_similarity
\* within 0..100
PostFilterConfigs ==
    [enabled : BOOLEAN, min_similarity : {50, 100},
     check_query_terms : BOOLEAN, check_location : BOOLEAN]

\* queries: none, one word, two words, a stop word
PfQueries ==
    { <<>>, <<"z", "ü">>, <<"z", "u", " ", "r", "s">>, <<"i", "n">> }

\* locations: the placeholder in two casings, one word, two words, a stop
\* word
PfLocations ==
    { <<"R", "e", "m", "o", "t", "e">>, <<"r", "e", "m", "o", "t", "e">>,
      <<"Z", "u">>, <<"r", "s", " ", "n", "o">>, <<"i", "n">> }

PfJobs ==
    { Job(<<"Z", "u">>, <<>>, <<>>, <<"r", "s">>),
      Job(<<"z", "o">>, <<>>, <<>>, <<>>),
      Job(<<>>, <<"m", "m">>, <<>>, <<>>) }

PfFrames == UNION { [1..n -> PfJobs] : n \in 0..MaxJobs }

FilterInit ==
    /\ pf_config \in PostFilterConfigs
    /\ pf_query \in PfQueries
    /\ pf_location \in PfLocations
    /\ pf_jobs_df \in PfFrames
    /\ pf_filtered_df = NoneDf

\* one call of fuzzy_post_filter
FuzzyPostFilter ==
    /\ pf_filtered_df = NoneDf
    /\ pf_filtered_df'
          = DataFrame(FuzzyPostFilterResult(pf_jobs_df, pf_query, pf_location,
                                            pf_config))
    /\ UNCHANGED <<pf_config, pf_query, pf_location, pf_jobs_df>>

\* a term of the text matches the text of job i of the frame
TermMatchesJob(term, i) ==
    _fuzzy_word_match(term, _get_job_text(pf_jobs_df[i]), pf_config.min_similarity)

\* every token of the query matches job i
AllQueryTokensMatch(i) ==
    \A k \in DOMAIN _extract_words(pf_query) :
        TermMatchesJob(_extract_words(pf_query)[k], i)

\* one token of the location matches job i
SomeLocationTokenMatches(i) ==
    \E k \in DOMAIN _extract_words(pf_location) :
        TermMatchesJob(_extract_words(pf_location)[k], i)

IsRemote(location) == Lower(location) = <<"r", "e", "m", "o", "t", "e">>

PfKept == { pf_filtered_df.rows[k].idx : k \in DOMAIN pf_filtered_df.rows }

\* the output has the kept rows once each, in the order of the input
PfInOrder ==
    /\ \A k \in DOMAIN pf_filtered_df.rows :
          pf_filtered_df.rows[k].row = pf_jobs_df[pf_filtered_df.rows[k].idx]
    /\ \A k \in 1..(Len(pf_filtered_df.rows) - 1) :
          pf_filtered_df.rows[k].idx < pf_filtered_df.rows[k + 1].idx

\* C22: with the filter enabled a row is kept iff (a) the query is not
\* checked or every token of the query matches its text, and (b) the
\* location is not checked, or is "Remote" in any casing, or one token of
\* the location matches its text; with the filter disabled every row is kept.
C22_KeptIff ==
    ~pf_filtered_df.none
    => /\ PfInOrder
       /\ \A i \in DOMAIN pf_jobs_df :
            i \in PfKept
            <=> \/ ~pf_config.enabled
                \/ /\ ~pf_config.check_query_terms \/ AllQueryTokensMatch(i)
                   /\ \/ ~pf_config.check_location
                      \/ IsRemote(pf_location)
                      \/ SomeLocationTokenMatches(i)

\* C22 as the code has it: a location that yields no token (empty, or made
\* of stop words and single characters) rejects no row.
C22_KeptIffUnlessNoLocationToken ==
    ~pf_filtered_df.none
    => /\ PfInOrder
       /\ \A i \in DOMAIN pf_jobs_df :
            i \in PfKept
            <=> \/ ~pf_config.enabled
                \/ /\ ~pf_config.check_query_terms \/ AllQueryTokensMatch(i)
                   /\ \/ ~pf_config.check_location
                      \/ IsRemote(pf_location)
                      \/ _extract_words(pf_location) = <<>>
                      \/ SomeLocationTokenMatches(i)

\* both checks are on, the query has two tokens and the location has two:
\* a row is kept and a row that matches one query token only is dropped
C22_Witness ==
    /\ ~pf_filtered_df.none
    /\ pf_config.enabled /\ pf_config.check_query_terms /\ pf_config.check_location
    /\ Len(_extract_words(pf_query)) = 2
    /\ Len(_extract_words(pf_location)) = 2
    /\ PfKept # {}
    /\ \E i \in DOMAIN pf_jobs_df :
          /\ i \notin PfKept
          /\ \E k \in DOMAIN _extract_words(pf_query) :
                TermMatchesJob(_extract_words(pf_query)[k], i)

FilterNext ==
    \/ FuzzyPostFilter
       /\ UNCHANGED <<searchVars, schedVars, scoreVars, matchVars, keyVars, loadVars, dbVars, nextRunVars>>

\* the arguments of one call of fuzzy_post_filter
FilterStart ==
    FilterInit /\ MatchIdle /\ KeyIdle /\ LoadIdle /\ DbIdle /\ NextRunIdle /\ CoreIdle /\ ScoreIdle

\* fuzzy_post_filter on every input of the model
FilterSpec == FilterStart /\ [][FilterNext]_vars

\* the words and the texts _fuzzy_word_match is called with
FmWords ==
    { <<>>, <<"z", "ü">>, <<"Z", "Ü">>, <<"u", " ", "r">>, <<"z", "o">>, <<"ß">>,
      <<"z", "ü", "r", "i", "c", "h">>, <<"z", "u", "r", "i", "c", "h">> }

FmTexts ==
    { <<>>, <<"z", "u", " ", "r", "s">>, <<"Z", "ü">>, <<"s", "s">>, <<"i", "n">>,
      <<"m", "m">>,
      <<"J", "o", "b", " ", "i", "n", " ", "Z", "u", "r", "i", "c", "h">>,
      <<"J", "o", "b", " ", "i", "n", " ", "Z", "ü", "r", "i", "c", "h">> }

MatchInit ==
    /\ fm_word \in FmWords
    /\ fm_text \in FmTexts
    /\ fm_min_similarity \in {50, 100}
    /\ fm_result = [none |-> TRUE, given |-> FALSE, normalized |-> FALSE]

\* one call of _fuzzy_word_match with the arguments as given, and one with
\* the normalized arguments
FuzzyWordMatch ==
    /\ fm_result.none
    /\ fm_result'
          = [none |-> FALSE,
             given |-> _fuzzy_word_match(fm_word, fm_text, fm_min_similarity),
             normalized |-> _fuzzy_word_match(_normalize_text(fm_word),
                                              _normalize_text(fm_text),
                                              fm_min_similarity)]
    /\ UNCHANGED <<fm_word, fm_text, fm_min_similarity>>

\* C23: matching a term with a text gives what matching the normalized term
\* with the normalized text gives; it succeeds, whatever min_similarity is,
\* when the normalized term occurs in the normalized text, as 'zürich' in
\* 'Job in Zurich' and 'zurich' in 'Job in Zürich'.
C23_FoldingInvariant ==
    ~fm_result.none
    => /\ fm_result.given = fm_result.normalized
       /\ IsSubstring(_normalize_text(fm_word), _normalize_text(fm_text))
            => fm_result.given
       /\ /\ fm_word = <<"z", "ü", "r", "i", "c", "h">>
          /\ fm_text = <<"J", "o", "b", " ", "i", "n", " ", "Z", "u", "r", "i", "c", "h">>
          => fm_result.given
       /\ /\ fm_word = <<"z", "u", "r", "i", "c", "h">>
          /\ fm_text = <<"J", "o", "b", " ", "i", "n", " ", "Z", "ü", "r", "i", "c", "h">>
          => fm_result.given

\* a term that normalization changes was matched, at similarity 100, with a
\* text that contains its normalized form
C23_Witness ==
    /\ ~fm_result.none
    /\ fm_min_similarity = 100
    /\ fm_word # _normalize_text(fm_word)
    /\ fm_text = _normalize_text(fm_text)
    /\ IsSubstring(_normalize_text(fm_word), fm_text)
    /\ fm_result.given

MatchNext ==
    \/ FuzzyWordMatch
       /\ UNCHANGED <<searchVars, schedVars, scoreVars, filterVars, keyVars, loadVars, dbVars, nextRunVars>>

\* the arguments of one call of _fuzzy_word_match
MatchStart ==
    MatchInit /\ FilterIdle /\ KeyIdle /\ LoadIdle /\ DbIdle /\ NextRunIdle /\ CoreIdle /\ ScoreIdle

\* _fuzzy_word_match on every input of the model
MatchSpec == MatchStart /\ [][MatchNext]_vars

(***************************************************************************)
(* Job identity: the in-run key (scripts/search_jobs.py) and the           *)
(* persistent job_id (scripts/models.py).                                   *)
(***************************************************************************)
\* hashlib.sha256(x.encode()).hexdigest(): a digest is determined by its
\* input and distinct inputs of the model have distinct digests
Sha256Hex(s) == <<"sha256", s>>

\* an id that keeps the case of the letters
generate_job_id_CaseSensitive(title, company, location) ==
    Sha256Hex(title \o <<"|">> \o company \o <<"|">> \o location)

\* f"{title}|{company}|{location}".lower(), hashed
generate_job_id(title, company, location) ==
    Sha256Hex(Lower(title \o <<"|">> \o company \o <<"|">> \o location))

\* Job.from_dict(row_dict).job_id: the fields pass through str()
JobIdOfRow(row) == generate_job_id(row.title, row.company, row.location)

KeyTitles ==
    { <<"D", "e", "v">>, <<"d", "e", "v">>, <<" ", "d", "e", "v">>, <<"O", "p", "s">> }
KeyCompanies == { <<"A", "c">>, <<"a", "c">>, <<"a", "c", " ">> }
KeyLocations ==
    { <<"R", "o">>, <<"r", "o">>, <<"n", " ", "y">>, <<"n", " ", " ", "y">> }
KeyRowUniverse ==
    { Row(t, c, l, TRUE) : t \in KeyTitles, c \in KeyCompanies, l \in KeyLocations }

KeyInit ==
    /\ key_rows \in [1..2 -> KeyRowUniverse]
    /\ key_result = [none |-> TRUE, keys |-> <<>>, job_ids |-> <<>>, new_jobs |-> <<>>]

\* the two rows go through the dedup loop of search_jobs and through
\* Job.job_id
GenerateJobKeys ==
    /\ key_result.none
    /\ key_result'
          = [none |-> FALSE,
             keys |-> [i \in 1..2 |-> _generate_job_key(key_rows[i])],
             job_ids |-> [i \in 1..2 |-> JobIdOfRow(key_rows[i])],
             new_jobs |-> DedupLoop(key_rows, {}, <<>>).new_jobs]
    /\ UNCHANGED key_rows

IdentityFields == {"title", "company", "location"}

\* the two rows differ in the case of their letters at most
SameUpToCase ==
    \A f \in IdentityFields : Lower(key_rows[1][f]) = Lower(key_rows[2][f])

\* C24: two rows that differ only in letter case have the same in-run key
\* and the same job_id, and two rows have the same in-run key exactly when
\* they have the same job_id.
C24_IdentityConsistent ==
    ~key_result.none
    => /\ SameUpToCase => /\ key_result.keys[1] = key_result.keys[2]
                          /\ key_result.job_ids[1] = key_result.job_ids[2]
       /\ key_result.keys[1] = key_result.keys[2]
            <=> key_result.job_ids[1] = key_result.job_ids[2]

\* two different rows that differ in case only got one key and one id
C24_Witness ==
    /\ ~key_result.none
    /\ key_rows[1] # key_rows[2]
    /\ SameUpToCase
    /\ key_result.keys[1] = key_result.keys[2]
    /\ key_result.job_ids[1] = key_result.job_ids[2]

\* str.strip() and runs of spaces made one space
RECURSIVE SqueezeSpaces(_, _)
SqueezeSpaces(s, after_space) ==
    IF s = <<>> THEN <<>>
    ELSE IF Head(s) = " "
         THEN (IF after_space \/ \A i \in DOMAIN s : s[i] = " " THEN <<>> ELSE <<" ">>)
              \o SqueezeSpaces(Tail(s), TRUE)
         ELSE <<Head(s)>> \o SqueezeSpaces(Tail(s), FALSE)

\* the two rows differ by leading, trailing or repeated spaces at most
SameUpToWhitespace ==
    \A f \in IdentityFields :
        SqueezeSpaces(key_rows[1][f], TRUE) = SqueezeSpaces(key_rows[2][f], TRUE)

\* C25: two rows that differ only by incidental whitespace have the same
\* key, and the dedup loop keeps one of them.
C25_WhitespaceInsensitive ==
    ~key_result.none /\ SameUpToWhitespace
    => /\ key_result.keys[1] = key_result.keys[2]
       /\ Len(key_result.new_jobs) = 1

KeyNext ==
    \/ GenerateJobKeys
       /\ UNCHANGED <<searchVars, schedVars, scoreVars, filterVars, matchVars, loadVars, dbVars, nextRunVars>>

\* two rows of a task's result
KeyStart ==
    KeyInit /\ FilterIdle /\ MatchIdle /\ LoadIdle /\ DbIdle /\ NextRunIdle /\ CoreIdle /\ ScoreIdle

\* the key and the id of every pair of rows of the model
KeySpec == KeyStart /\ [][KeyNext]_vars

(***************************************************************************)
(* Loading the configuration (scripts/config.py).  Fractions are written    *)
(* in hundredths: a jitter of 30 is 0.3, a backoff_factor of 50 is 0.5.     *)
(***************************************************************************)
\* what a parser gives: a section of the Config, or a ValueError
Parsed(section) == [raised |-> FALSE, section |-> section]
ValueError == [raised |-> TRUE, section |-> <<>>]

\* _parse_parallel_config: the value is taken as it is
_parse_parallel_config(data) == Parsed([max_workers |-> data.max_workers])

\* _parse_retry_config: the values are taken as they are
_parse_retry_config(data) ==
    Parsed([max_attempts |-> data.max_attempts, base_delay |-> data.base_delay,
            backoff_factor |-> data.backoff_factor])

\* _parse_throttling_config: the values are taken as they are
_parse_throttling_config(data) == Parsed([jitter |-> data.jitter])

\* _parse_post_filter_config: min_similarity is checked
_parse_post_filter_config(data) ==
    IF ~(0 <= data.min_similarity /\ data.min_similarity <= 100) THEN ValueError
    ELSE Parsed([min_similarity |-> data.min_similarity])

\* _parse_scheduler_config: interval_hours and retry_delay_minutes are checked
_parse_scheduler_config(data) ==
    IF data.interval_hours <= 0 THEN ValueError
    ELSE IF data.retry_delay_minutes < 0 THEN ValueError
    ELSE Parsed([interval_hours |-> data.interval_hours,
                 retry_delay_minutes |-> data.retry_delay_minutes])

\* load_config: a parser that raises ends the call
load_config(data) ==
    LET sections == <<_parse_parallel_config(data), _parse_retry_config(data),
                      _parse_throttling_config(data),
                      _parse_post_filter_config(data),
                      _parse_scheduler_config(data)>>
    IN  IF \E i \in DOMAIN sections : sections[i].raised
        THEN "ValueError" ELSE "Config"

\* the settings of a YAML file, inside and outside the ranges
YamlFiles ==
    [max_workers : {0, 1}, max_attempts : {0, 1}, base_delay : {-100, 0},
     backoff_factor : {50, 100}, jitter : {-10, 30, 150},
     min_similarity : {-1, 80, 101}, interval_hours : {0, 1},
     retry_delay_minutes : {-1, 0}]

LoadInit ==
    /\ yaml_data \in YamlFiles
    /\ loaded = "pending"

\* one call of load_config
LoadConfig ==
    /\ loaded = "pending"
    /\ loaded' = load_config(yaml_data)
    /\ UNCHANGED yaml_data

\* a setting is outside the range the core assumes
OutOfRange(data) ==
    \/ data.max_workers < 1
    \/ data.max_attempts < 1
    \/ data.base_delay < 0
    \/ data.backoff_factor < 100
    \/ data.jitter < 0 \/ data.jitter > 100
    \/ data.min_similarity < 0 \/ data.min_similarity > 100
    \/ data.interval_hours <= 0
    \/ data.retry_delay_minutes < 0

\* C26: loading a configuration with a setting outside its range ends with
\* an error.
C26_FailFast ==
    loaded # "pending" /\ OutOfRange(yaml_data) => loaded = "ValueError"

LoadNext ==
    \/ LoadConfig
       /\ UNCHANGED <<searchVars, schedVars, scoreVars, filterVars, matchVars, keyVars, dbVars, nextRunVars>>

\* a YAML file about to be loaded
LoadStart ==
    LoadInit /\ FilterIdle /\ MatchIdle /\ KeyIdle /\ DbIdle /\ NextRunIdle /\ CoreIdle /\ ScoreIdle

\* load_config on every YAML file of the model
LoadSpec == LoadStart /\ [][LoadNext]_vars

(***************************************************************************)
(* JobDatabase (scripts/database.py): the jobs table and the save           *)
(* operations.  A stored row is modelled by its relevance_score; the other  *)
(* columns are written by the same statement in every operation.            *)
(***************************************************************************)
MaxBatch == 2
MaxSaves == 2
SQLITE_VAR_LIMIT == 500

\* the jobs given to the save operations
DbJob(t, score) == [title |-> t, company |-> <<>>, location |-> <<>>, relevance_score |-> score]
DbJobUniverse == { DbJob(t, sc) : t \in {<<"D">>, <<"d">>, <<"O">>}, sc \in {0, 3, 5} }
DbBatches == UNION { [1..n -> DbJobUniverse] : n \in 0..MaxBatch }
DbIds == { JobIdOfRow(j) : j \in DbJobUniverse }

NoRow == [exists |-> FALSE, relevance_score |-> 0]
StoredRow(score) == [exists |-> TRUE, relevance_score |-> score]

\* a statement that overwrites the stored score
ConflictScore_Overwrite(stored, excluded) == excluded

\* CASE WHEN excluded.relevance_score > jobs.relevance_score
\*      THEN excluded.relevance_score ELSE jobs.relevance_score END
ConflictScore(stored, excluded) == IF excluded > stored THEN excluded ELSE stored

\* INSERT ... ON CONFLICT(job_id) DO UPDATE SET ...
INSERT_OR_UPDATE(table, job) ==
    LET job_id == JobIdOfRow(job)
    IN  IF ~table[job_id].exists
        THEN [table EXCEPT ![job_id] = StoredRow(job.relevance_score)]
        ELSE [table EXCEPT ![job_id] =
                StoredRow(ConflictScore(table[job_id].relevance_score,
                                        job.relevance_score))]

job_exists(table, job_id) == table[job_id].exists

\* save_job(job): the table afterwards and the value returned
save_job(table, job) ==
    [table |-> INSERT_OR_UPDATE(table, job),
     is_new |-> ~job_exists(table, JobIdOfRow(job))]

\* save_jobs(jobs): the loop over the jobs, with the counts so far
RECURSIVE save_jobs(_, _, _, _)
save_jobs(table, job_list, new_count, updated_count) ==
    IF job_list = <<>>
    THEN [table |-> table, new_count |-> new_count, updated_count |-> updated_count]
    ELSE LET saved == save_job(table, Head(job_list))
         IN  IF saved.is_new
             THEN save_jobs(saved.table, Tail(job_list), new_count + 1, updated_count)
             ELSE save_jobs(saved.table, Tail(job_list), new_count, updated_count + 1)

\* _batch_query_existing_ids(job_ids): one SELECT ... IN (...) per chunk of
\* SQLITE_VAR_LIMIT ids, from position i on
RECURSIVE _batch_query_existing_ids(_, _, _)
_batch_query_existing_ids(table, job_ids, i) ==
    IF i > Len(job_ids) THEN {}
    ELSE LET last == IF i + SQLITE_VAR_LIMIT - 1 < Len(job_ids)
                     THEN i + SQLITE_VAR_LIMIT - 1 ELSE Len(job_ids)
             chunk == { job_ids[k] : k \in i..last }
         IN  { id \in chunk : table[id].exists }
             \cup _batch_query_existing_ids(table, job_ids, i + SQLITE_VAR_LIMIT)

\* cursor.executemany(INSERT_OR_UPDATE, jobs_data)
RECURSIVE executemany(_, _)
executemany(table, jobs_data) ==
    IF jobs_data = <<>> THEN table
    ELSE executemany(INSERT_OR_UPDATE(table, Head(jobs_data)), Tail(jobs_data))

\* save_jobs_from_dataframe(df)
save_jobs_from_dataframe(table, df) ==
    IF df = <<>>
    THEN [table |-> table, new_count |-> 0, updated_count |-> 0]
    ELSE LET job_ids == [k \in DOMAIN df |-> JobIdOfRow(df[k])]
             existing_ids == _batch_query_existing_ids(table, job_ids, 1)
         IN  [table |-> executemany(table, df),
              new_count |-> Len(job_ids) - Cardinality(existing_ids),
              updated_count |-> Cardinality(existing_ids)]

\* the scores saved so far, with those of the jobs of one more call
Saved(history, job_list) ==
    [id \in DbIds |->
        history[id] \cup { job_list[k].relevance_score :
                             k \in { x \in DOMAIN job_list : JobIdOfRow(job_list[x]) = id } }]

\* a new, empty database
DbInit ==
    /\ db_jobs = [id \in DbIds |-> NoRow]
    /\ db_saved = [id \in DbIds |-> {}]
    /\ db_last = [none |-> TRUE]
    /\ db_calls = 0

SaveJob(job) ==
    /\ db_calls < MaxSaves
    /\ db_jobs' = save_job(db_jobs, job).table
    /\ db_saved' = Saved(db_saved, <<job>>)
    /\ db_calls' = db_calls + 1
    /\ UNCHANGED db_last

SaveJobs(job_list) ==
    /\ db_calls < MaxSaves
    /\ db_jobs' = save_jobs(db_jobs, job_list, 0, 0).table
    /\ db_saved' = Saved(db_saved, job_list)
    /\ db_calls' = db_calls + 1
    /\ UNCHANGED db_last

\* the call, with what save_jobs gives for the same rows on the same table
\* and what the call gives when it is made once more with the same rows
SaveJobsFromDataframe(df) ==
    /\ db_calls < MaxSaves
    /\ LET batch == save_jobs_from_dataframe(db_jobs, df)
       IN  /\ db_jobs' = batch.table
           /\ db_last' = [none |-> FALSE, before |-> db_jobs, df |-> df,
                          batch |-> batch,
                          one_by_one |-> save_jobs(db_jobs, df, 0, 0),
                          again |-> save_jobs_from_dataframe(batch.table, df)]
    /\ db_saved' = Saved(db_saved, df)
    /\ db_calls' = db_calls + 1

SetMax(scores) == CHOOSE m \in scores : \A x \in scores : x <= m

\* C27: the stored relevance_score of a job identity is the maximum of the
\* scores saved under it so far, by whichever save operation; an identity
\* never saved has no row.
C27_ScoreIsMaximum ==
    db_calls > 0
    => \A id \in DbIds :
          IF db_saved[id] = {} THEN ~db_jobs[id].exists
          ELSE /\ db_jobs[id].exists
               /\ db_jobs[id].relevance_score = SetMax(db_saved[id])

\* an identity was saved with a high score and then, in a later call and
\* under another casing, with a lower one: the high score is stored
C27_Witness ==
    /\ db_calls = 2
    /\ ~db_last.none
    /\ Len(db_last.df) = 1
    /\ db_last.before[JobIdOfRow(db_last.df[1])].exists
    /\ db_last.before[JobIdOfRow(db_last.df[1])].relevance_score = 5
    /\ db_last.df[1].relevance_score = 3
    /\ db_jobs[JobIdOfRow(db_last.df[1])].relevance_score = 5

\* the identities of the batch with no row before the call
FirstTimeIds ==
    { id \in DbIds :
        /\ ~db_last.before[id].exists
        /\ \E k \in DOMAIN db_last.df : JobIdOfRow(db_last.df[k]) = id }

\* C28: save_jobs_from_dataframe returns the counts and leaves the table
\* that saving the same rows one by one does: new_count is the number of
\* identities stored for the first time, updated_count counts the other
\* rows, and saving the batch once more gives new_count = 0.
C28_BatchAsOneByOne ==
    ~db_last.none
    => /\ db_last.batch.table = db_last.one_by_one.table
       /\ db_last.batch.new_count = db_last.one_by_one.new_count
       /\ db_last.batch.updated_count = db_last.one_by_one.updated_count
       /\ db_last.batch.new_count = Cardinality(FirstTimeIds)
       /\ db_last.batch.updated_count
            = Len(db_last.df) - Cardinality(FirstTimeIds)
       /\ db_last.again.new_count = 0

DbNext ==
    \/ \E job \in DbJobUniverse : SaveJob(job)
       /\ UNCHANGED <<searchVars, schedVars, scoreVars, filterVars, matchVars, keyVars, loadVars, nextRunVars>>
    \/ \E job_list \in DbBatches : SaveJobs(job_list)
       /\ UNCHANGED <<searchVars, schedVars, scoreVars, filterVars, matchVars, keyVars, loadVars, nextRunVars>>
    \/ \E df \in DbBatches : SaveJobsFromDataframe(df)
       /\ UNCHANGED <<searchVars, schedVars, scoreVars, filterVars, matchVars, keyVars, loadVars, nextRunVars>>

\* a new database
DbStart ==
    DbInit /\ FilterIdle /\ MatchIdle /\ KeyIdle /\ LoadIdle /\ NextRunIdle /\ CoreIdle
    /\ ScoreIdle

\* any sequence of save operations
DbSpec == DbStart /\ [][DbNext]_vars

(***************************************************************************)
(* _schedule_next_run (scripts/scheduler.py) called at any time after the   *)
(* start of the run.                                                        *)
(***************************************************************************)
MaxLate == 14

NextRunInit ==
    /\ nr_start \in 0..2
    /\ nr_now \in nr_start..(nr_start + MaxLate)
    /\ nr_interval_hours \in {1, 2, 3}
    /\ nr_result = [none |-> TRUE]

\* one call of _schedule_next_run(current_run_start)
ScheduleNextRun ==
    /\ nr_result.none
    /\ nr_result'
          = [none |-> FALSE,
             run_date |-> ScheduleNextRunTime(nr_start, nr_now,
                                              Hours(nr_interval_hours)),
             warning |-> SkippedSlotsWarning(nr_start, nr_now,
                                             Hours(nr_interval_hours))]
    /\ UNCHANGED <<nr_start, nr_now, nr_interval_hours>>

\* the smallest k >= 1 with S + k * I > now
SmallestFutureMultiple(S, t, I) ==
    CHOOSE k \in 1..(MaxLate + 2) :
        /\ S + k * I > t
        /\ \A j \in 1..(k - 1) : S + j * I <= t

\* C29: the trigger is registered at S + k * I for the smallest k >= 1 with
\* S + k * I > now, k - 1 skipped slots are reported, and the trigger is
\* later than now and a whole multiple of I after S.
C29_NextFutureSlot ==
    ~nr_result.none
    => LET I == Hours(nr_interval_hours)
           k == SmallestFutureMultiple(nr_start, nr_now, I)
       IN  /\ nr_result.run_date = nr_start + k * I
           /\ nr_result.warning.skipped = k - 1
           /\ nr_result.warning.logged <=> k > 1
           /\ nr_result.run_date > nr_now
           /\ (nr_result.run_date - nr_start) % I = 0

\* the call came more than two intervals after the start of the run, at a
\* time that is not a multiple of the interval: two slots are skipped
C29_Witness ==
    /\ ~nr_result.none
    /\ nr_interval_hours = 2
    /\ nr_now = nr_start + 2 * Hours(nr_interval_hours) + 1
    /\ nr_result.warning.logged
    /\ nr_result.warning.skipped = 2
    /\ nr_result.run_date = nr_start + 3 * Hours(nr_interval_hours)

NextRunNext ==
    \/ ScheduleNextRun
       /\ UNCHANGED <<searchVars, schedVars, scoreVars, filterVars, matchVars, keyVars, loadVars, dbVars>>

\* a call of _schedule_next_run about to be made
NextRunStart ==
    NextRunInit /\ FilterIdle /\ MatchIdle /\ KeyIdle /\ LoadIdle /\ DbIdle /\ CoreIdle
    /\ ScoreIdle

\* _schedule_next_run on every input of the model
NextRunSpec == NextRunStart /\ [][NextRunNext]_vars

\* a fetch invocation of the task of worker w is made in this step
Fetches(w) == wtask[w] # NoTask /\ calls'[wtask[w]] # calls[wtask[w]]

\* C30: with throttling enabled a task is granted the limiter once, before
\* its first fetch; every fetch of the task, first or retried, runs with
\* the lock released, after that one grant, and leaves the lock and the
\* last-request timestamp as they are.
C30_LimiterOncePerTask ==
    [][ config.throttling.enabled
        => /\ \A t \in TaskIds : grants'[t] <= 1
           /\ \A w \in Workers :
                Fetches(w)
                => /\ grants[wtask[w]] = 1
                   /\ grants'[wtask[w]] = 1
                   /\ lockHolder # w
                   /\ lockHolder' = lockHolder
                   /\ site_last_request' = site_last_request
                   /\ prev_request' = prev_request ]_vars

\* a task was granted the limiter once and has made two fetch invocations,
\* the second at the very time of the grant's timestamp
C30_Witness ==
    /\ config.throttling.enabled
    /\ \E t \in TaskIds :
          /\ Len(calls[t]) = 2
          /\ grants[t] = 1
          /\ site_last_request = clock
          /\ \A u \in TaskIds \ {t} : grants[u] = 0

SearchNext ==
    \/ SubmitAll /\ UNCHANGED <<schedVars, scoreVars, pureVars>>
    \/ \E w \in Workers : TakeTask(w) /\ UNCHANGED <<schedVars, scoreVars, pureVars>>
    \/ \E w \in Workers : GetSiteLock(w) /\ UNCHANGED <<schedVars, scoreVars, pureVars>>
    \/ \E w \in Workers : AcquireLock(w) /\ UNCHANGED <<schedVars, scoreVars, pureVars>>
    \/ \E w \in Workers : ComputeWait(w) /\ UNCHANGED <<schedVars, scoreVars, pureVars>>
    \/ \E w \in Workers : StampAndRelease(w) /\ UNCHANGED <<schedVars, scoreVars, pureVars>>
    \/ \E w \in Workers : FetchAttempt(w) /\ UNCHANGED <<schedVars, scoreVars, pureVars>>
    \/ \E t \in TaskIds : DrainFuture(t) /\ UNCHANGED <<schedVars, scoreVars, pureVars>>
    \/ ReturnFromSearch /\ UNCHANGED <<schedVars, scoreVars, pureVars>>
    \/ Tick /\ UNCHANGED <<schedVars, scoreVars, pureVars>>

\* entry of search_jobs, for every configuration and fetch outcome
SearchStart ==
    SearchInit(SearchConfigs, {AllOutcomes}) /\ SchedIdle /\ ScoreIdle /\ PureIdle

\* search_jobs under every fetch outcome
SearchSpec == SearchStart /\ [][SearchNext]_vars

\* entry of search_jobs with throttling enabled
ThrottleStart ==
    SearchInit(ThrottleConfigs, {BarrenOutcomes}) /\ SchedIdle /\ ScoreIdle /\ PureIdle

\* search_jobs with throttling enabled, more tasks and a fetch that finds nothing
ThrottleSpec == ThrottleStart /\ [][SearchNext]_vars

ScoreNext ==
    \/ FilterRelevantJobs /\ UNCHANGED <<searchVars, schedVars, pureVars>>

\* a DataFrame and a scoring configuration given to filter_relevant_jobs
ScoreStart == ScoreInit /\ CoreIdle /\ PureIdle

\* filter_relevant_jobs on every input of the model
ScoreSpec == ScoreStart /\ [][ScoreNext]_vars

====
